---------------------------- MODULE Spec2Model ----------------------------
(***************************************************************************)
(* notifico: the Bitbucket hook adapter.                                   *)
(*                                                                         *)
(* BitbucketHook.handle_request is a Python generator: nothing of its body *)
(* runs until the consumer calls next(), and each next() runs the body up  *)
(* to the following yield, to its return, or to an uncaught exception.     *)
(* The model follows one dispatch: the request form, the hook, the         *)
(* generator's position and locals, the lines handed to the consumer, and  *)
(* the number of calls made to the link shortener.                         *)
(*                                                                         *)
(* A Python string is a sequence of atoms (characters, or longer literal   *)
(* pieces where the code never looks inside them); a dict is a function    *)
(* whose DOMAIN is its set of keys.                                        *)
(***************************************************************************)
EXTENDS Integers, Sequences, FiniteSets, TLC

VARIABLES form, hook, pc, running, pulls, j, i, config, strip, branches,
          idx, out, shortenCalls

vars == <<form, hook, pc, running, pulls, j, i, config, strip, branches,
          idx, out, shortenCalls>>

---------------------------------------------------------------------------
(* Bounds of the model *)

\* commits per payload
MaxCommits == 3
\* characters in the hook's configured `branches` text
MaxCfgLen == 4

---------------------------------------------------------------------------
(* Python values *)

\* Python's None: a value that is no modelled string.
None == <<"None">>

\* The empty dict.
EmptyDict == <<>>

\* d.get(k, default)
Get(d, k, default) == IF k \in DOMAIN d THEN d[k] ELSE default

\* Truth value of an optional string: None and '' are false.
Truthy(s) == s # None /\ s # <<>>

SeqsUpTo(S, n) == UNION {[1..m -> S] : m \in 0..n}

Digits == <<"0", "1", "2", "3", "4", "5", "6", "7", "8", "9">>

\* The decimal text of a natural number, as '{0}'.format(n) gives it.
RECURSIVE Str(_)
Str(n) == IF n < 10 THEN <<Digits[n + 1]>>
          ELSE Str(n \div 10) \o <<Digits[(n % 10) + 1]>>

\* sep.join(parts)
RECURSIVE Join(_, _)
Join(parts, sep) ==
    IF parts = <<>> THEN <<>>
    ELSE IF Len(parts) = 1 THEN parts[1]
    ELSE parts[1] \o sep \o Join(Tail(parts), sep)

\* s.lower(), on the letters the model uses
LowerChar(c) == CASE c = "M" -> "m"
                  [] c = "D" -> "d"
                  [] OTHER -> c

Lower(s) == [n \in 1..Len(s) |-> LowerChar(s[n])]

IsSpace(c) == c = " "

\* s.strip(): leading and trailing whitespace removed
RECURSIVE LStrip(_)
LStrip(s) == IF s # <<>> /\ IsSpace(s[1]) THEN LStrip(Tail(s)) ELSE s

RECURSIVE RStrip(_)
RStrip(s) == IF s # <<>> /\ IsSpace(s[Len(s)])
             THEN RStrip(SubSeq(s, 1, Len(s) - 1)) ELSE s

StripWs(s) == RStrip(LStrip(s))

\* s.split(sep): the pieces between separators; '' gives [''].
RECURSIVE SplitFrom(_, _, _)
SplitFrom(s, sep, cur) ==
    IF s = <<>> THEN <<cur>>
    ELSE IF s[1] = sep THEN <<cur>> \o SplitFrom(Tail(s), sep, <<>>)
    ELSE SplitFrom(Tail(s), sep, Append(cur, s[1]))

Split(s, sep) == SplitFrom(s, sep, <<>>)

Range(f) == {f[n] : n \in DOMAIN f}

---------------------------------------------------------------------------
(* The colour palette and the notification line *)

GREY == "<GREY>"
BLUE == "<BLUE>"
TEAL == "<TEAL>"
LIGHT_GREY == "<LIGHT_GREY>"

\* HookService.colors: the control sequences the format strings interpolate.
ColorCodes == {GREY, BLUE, TEAL, LIGHT_GREY}

HasColor(text) == \E n \in 1..Len(text) : text[n] \in ColorCodes

\* The stripping pass a line with strip = TRUE goes through before transport.
StripColors(text) == SelectSeq(text, LAMBDA c : c \notin ColorCodes)

\* cls.message(text, strip=strip): the line and its strip flag.
Message(text, s) == [text |-> text, strip |-> s]

\* The text of a line once it is final.
Final(line) == IF line.strip THEN StripColors(line.text) ELSE line.text

---------------------------------------------------------------------------
(* simplify_payload *)

\* The result dict as simplify_payload first builds it.
NewResult(payload) ==
    [branch |-> None, tag |-> None, pusher |-> None,
     files |-> [all |-> {}, added |-> {}, removed |-> {}, modified |-> {}],
     original |-> payload]

AddFileLosingAll(files, file_) ==
    [files EXCEPT ![file_.type] = @ \cup {file_.file}]

\* One pass of the inner loop: the file's name joins its type's set and 'all'.
AddFile(files, file_) ==
    [files EXCEPT ![file_.type] = @ \cup {file_.file},
                  !["all"] = @ \cup {file_.file}]

RECURSIVE AddFiles(_, _)
AddFiles(files, list) ==
    IF list = <<>> THEN files
    ELSE AddFiles(AddFile(files, list[1]), Tail(list))

NextBranchOverwriting(cur, commit) == Get(commit, "branch", None)

\* branch = commit.get('branch'); if branch: result['branch'] = branch
NextBranch(cur, commit) ==
    LET branch == Get(commit, "branch", None)
    IN  IF Truthy(branch) THEN branch ELSE cur

\* One pass of the outer loop over payload.get('commits', tuple()).
SimplifyStep(result, commit) ==
    [result EXCEPT !.files = AddFiles(@, Get(commit, "files", <<>>)),
                   !.branch = NextBranch(@, commit)]

\* The commits simplify_payload iterates over.
CommitsOrNone(payload) == Get(payload, "commits", <<>>)

---------------------------------------------------------------------------
(* The line builders *)

\* commit['node'][:7]
NodeLen == 7

Prefix(s, n) == SubSeq(s, 1, IF Len(s) < n THEN Len(s) ELSE n)

HasRepoKey(original, k) ==
    /\ "repository" \in DOMAIN original
    /\ k \in DOMAIN original.repository

\* The lookups of _make_summary_line that raise KeyError on a missing key
\* (or IndexError, were commits[-1] taken of an empty list).
SummaryRaises(result) ==
    LET original == result.original
    IN  \/ ~HasRepoKey(original, "name")
        \/ original.commits = <<>>
        \/ "canon_url" \notin DOMAIN original
        \/ ~HasRepoKey(original, "absolute_url")
        \/ "node" \notin DOMAIN original.commits[Len(original.commits)]

\* The link text: '{0}{1}commits/' of canon_url and repository.absolute_url.
SummaryLink(result) ==
    result.original.canon_url \o result.original.repository.absolute_url
        \o <<"commits/">>

\* What BitbucketHook.shorten may return for a link: a shortened form, or the
\* link itself when shortening fails.
ShortenResults(link) == {link, <<"http://git.io/", "x">>}

\* The text of the summary line, `short` being what the shortener returned.
SummaryText(result, cfg, short) ==
    LET original == result.original
        show_branch == Get(cfg, "show_branch", TRUE)
        n == Len(original.commits)
        project == <<<<GREY, "[", BLUE>> \o original.repository.name
                        \o <<GREY, "]">>>>
        pusher == IF Truthy(result.pusher)
                  THEN <<<<TEAL>> \o result.pusher \o <<GREY, " pushed">>>>
                  ELSE <<>>
        count == <<<<TEAL>> \o Str(n) \o <<GREY, " ">>
                      \o <<IF n = 1 THEN "commit" ELSE "commits">>>>
        branch == IF show_branch /\ Truthy(result.branch)
                  THEN <<<<"to ", TEAL>> \o result.branch \o <<GREY>>>>
                  ELSE <<>>
        moved == <<<<"[+">> \o Str(Cardinality(result.files.added))
                      \o <<"/-">> \o Str(Cardinality(result.files.removed))
                      \o <<"/(+-)">> \o Str(Cardinality(result.files.modified))
                      \o <<"]">>>>
        link == <<<<LIGHT_GREY>> \o short \o <<GREY>>>>
    IN  Join(project \o pusher \o count \o branch \o moved \o link, <<" ">>)

\* _make_summary_line: whether it raises, else its text and the shortener
\* calls it made.
MakeSummaryLine(result, cfg, short) ==
    IF SummaryRaises(result)
    THEN [raises |-> TRUE, text |-> <<>>, shortened |-> 0]
    ELSE [raises |-> FALSE, text |-> SummaryText(result, cfg, short),
          shortened |-> 1]

\* The key the author is read from.
AuthorKey(hookcfg) ==
    IF Get(hookcfg, "show_raw_author", FALSE) THEN "raw_author" ELSE "author"

CommitRaises(result, hookcfg, commit) ==
    \/ ~HasRepoKey(result.original, "name")
    \/ AuthorKey(hookcfg) \notin DOMAIN commit
    \/ "node" \notin DOMAIN commit
    \/ "message" \notin DOMAIN commit

CommitText(result, hookcfg, commit) ==
    Join(<< <<GREY, "[", BLUE>> \o result.original.repository.name
                \o <<GREY, "]">>,
            <<TEAL>> \o commit[AuthorKey(hookcfg)] \o <<GREY>>,
            <<TEAL>> \o Prefix(commit.node, NodeLen) \o <<GREY>>,
            <<"-">>,
            commit.message >>, <<" ">>)

MakeCommitLineShortening(result, hookcfg, commit) ==
    IF CommitRaises(result, hookcfg, commit)
    THEN [raises |-> TRUE, text |-> <<>>, shortened |-> 0]
    ELSE [raises |-> FALSE, text |-> CommitText(result, hookcfg, commit),
          shortened |-> 1]

\* _make_commit_line: whether it raises, else its text; it never shortens.
MakeCommitLine(result, hookcfg, commit) ==
    IF CommitRaises(result, hookcfg, commit)
    THEN [raises |-> TRUE, text |-> <<>>, shortened |-> 0]
    ELSE [raises |-> FALSE, text |-> CommitText(result, hookcfg, commit),
          shortened |-> 0]

---------------------------------------------------------------------------
(* handle_request: configuration and the two early returns *)

\* hook.config or {}
ConfigOf(h) == IF h.none THEN EmptyDict ELSE h.config

StripFlagInverted(cfg) == Get(cfg, "use_colors", TRUE)

\* strip = not config.get('use_colors', True)
StripFlag(cfg) == ~Get(cfg, "use_colors", TRUE)

\* [b.strip().lower() for b in branches.split(',')]
BranchList(text) ==
    LET parts == Split(text, ",")
    IN  [n \in 1..Len(parts) |-> Lower(StripWs(parts[n]))]

BranchFilteredCaseSensitive(text, branch) ==
    /\ Truthy(text)
    /\ Truthy(branch)
    /\ branch \notin Range(BranchList(text))

\* if branches: ... if j['branch'] and j['branch'].lower() not in branches
BranchFiltered(text, branch) ==
    /\ Truthy(text)
    /\ Truthy(branch)
    /\ Lower(branch) \notin Range(BranchList(text))

GateSkippingEmpty(result, text) ==
    IF "commits" \notin DOMAIN result.original THEN "raise"
    ELSE IF BranchFiltered(text, result.branch) THEN "return"
    ELSE "render"

\* Lines 183-192: KeyError without a 'commits' key, return on no commits or on
\* a branch the user does not want, else the lines are rendered.
Gate(result, text) ==
    IF "commits" \notin DOMAIN result.original THEN "raise"
    ELSE IF result.original.commits = <<>> THEN "return"
    ELSE IF BranchFiltered(text, result.branch) THEN "return"
    ELSE "render"

---------------------------------------------------------------------------
(* The inputs of one dispatch *)

\* {} or {k: v} for each v
Opt(k, vals) == {EmptyDict} \cup {k :> v : v \in vals}

\* Every union of a dict of A with a dict of B (their keys are disjoint).
Merge(A, B) == {a @@ b : a \in A, b \in B}

RepoFull == [name |-> <<"notifico">>, absolute_url |-> <<"/tk/notifico/">>]

Repos == {EmptyDict, [name |-> RepoFull.name],
          [absolute_url |-> RepoFull.absolute_url], RepoFull}

CommitA == [author |-> <<"tk">>, raw_author |-> <<"Tyler <tk@tkte.ch>">>,
            node |-> <<"a", "b", "c", "d", "e", "f", "0", "1", "2">>,
            message |-> <<"fix the parser">>]

CommitB == [author |-> <<"sam">>, raw_author |-> <<"Sam <sam@example.org>">>,
            node |-> <<"9", "8", "7">>,
            message |-> <<"add tests">>]

Without(d, k) == [x \in DOMAIN d \ {k} |-> d[x]]

FileLists == { <<>>,
               <<[type |-> "added", file |-> "a.py"]>>,
               <<[type |-> "modified", file |-> "a.py"],
                 [type |-> "removed", file |-> "b.py"]>>,
               <<[type |-> "removed", file |-> "a.py"],
                 [type |-> "added", file |-> "b.py"],
                 [type |-> "added", file |-> "b.py"]>> }

\* Commits that differ in what the normalizer reads: the files, or the branch.
NormCommits ==
    Merge({CommitA}, Opt("files", FileLists))
        \cup Merge({CommitA}, {[branch |-> b] : b \in {<<>>, <<"d">>, <<"m">>}})

\* Commits that differ in the branch they declare.
BranchCommits == Merge({CommitA}, Opt("branch", {<<"M">>, <<"m">>, <<"d">>}))

\* Commits that differ in the keys the line builders read.
RenderCommits ==
    {CommitA @@ [branch |-> <<"d">>], CommitB}
        \cup {Without(CommitA, k) :
                k \in {"author", "raw_author", "node", "message"}}

\* A JSON object posted by the service, around a given commits part.
Docs(commitsPart) ==
    Merge(Merge(Opt("user", {<<"alice">>}),
                Opt("canon_url", {<<"https://bitbucket.org">>})),
          Merge(Opt("repository", Repos), commitsPart))

FullDocs(commitSeqs) ==
    {[user |-> <<"alice">>, canon_url |-> <<"https://bitbucket.org">>,
      repository |-> RepoFull, commits |-> cs] : cs \in commitSeqs}

\* Pushes of up to MaxCommits commits of which only the last declares its
\* branch (the comment of lines 60-61).
BranchPushes ==
    {[n \in 1..m |-> IF n = m THEN last ELSE CommitB] :
        m \in 1..MaxCommits, last \in BranchCommits}

\* The request form: no payload field, or a payload body, which is empty, is no
\* JSON text, is JSON for something other than an object, or is an object.
Body(kind, doc) == [kind |-> kind, doc |-> doc]

FormOf(doc) == [payload |-> Body("object", doc)]

OddForms == {EmptyDict} \cup
            {[payload |-> Body(k, EmptyDict)] : k \in {"empty", "garbage", "array"}}

NoConfig == [none |-> TRUE, config |-> EmptyDict]

HookOf(cfg) == [none |-> FALSE, config |-> cfg]

CfgChars == {"M", "d", ",", " "}

\* Hook configurations that differ in the branches text.
BranchConfigs == {[branches |-> t] : t \in SeqsUpTo(CfgChars, MaxCfgLen)}

\* Hook configurations that differ in the flags.
FlagConfigs ==
    Merge(Opt("use_colors", {TRUE, FALSE}),
          Merge(Opt("show_raw_author", {TRUE, FALSE}),
                Opt("show_branch", {FALSE})))

\* Pushes that differ in files and branches, for a hook without configuration.
InitNormalize ==
    /\ form \in {FormOf(d) : d \in FullDocs(SeqsUpTo(NormCommits, MaxCommits))}
    /\ hook = NoConfig

\* Pushes to some branch, for hooks that differ in the branches they forward.
InitFilter ==
    /\ form \in {FormOf(d) : d \in FullDocs(BranchPushes)}
    /\ hook \in {HookOf(c) : c \in BranchConfigs}

\* Requests of any shape, whole or lacking top-level parts, for hooks that
\* differ in the flags.
InitEnvelope ==
    /\ form \in OddForms \cup
         {FormOf(d) :
            d \in Docs(Opt("commits",
                           SeqsUpTo({CommitA @@ [branch |-> <<"d">>], CommitB},
                                    MaxCommits)))}
    /\ hook \in {NoConfig} \cup {HookOf(c) : c \in FlagConfigs}

\* Pushes whose commits lack keys, for hooks that differ in the flags.
InitCommits ==
    /\ form \in {FormOf(d) : d \in FullDocs(SeqsUpTo(RenderCommits, MaxCommits))}
    /\ hook \in {HookOf(c) :
                   c \in Merge(Opt("use_colors", {TRUE, FALSE}),
                               Opt("show_raw_author", {TRUE, FALSE}))}

Init ==
    /\ \/ InitNormalize
       \/ InitFilter
       \/ InitEnvelope
       \/ InitCommits
    /\ pc = "start"
    /\ running = FALSE
    /\ pulls = 0
    /\ j = NewResult(EmptyDict)
    /\ i = 0
    /\ config = EmptyDict
    /\ strip = FALSE
    /\ branches = None
    /\ idx = 0
    /\ out = <<>>
    /\ shortenCalls = 0

---------------------------------------------------------------------------
(* handle_request, as the generator the consumer drives *)

Ended == pc \in {"done", "raised"}

\* The commits array of the payload under dispatch.
Commits == CommitsOrNone(j.original)

\* The consumer calls next() on the suspended generator.
Pull ==
    /\ ~running
    /\ ~Ended
    /\ running' = TRUE
    /\ pulls' = pulls + 1
    /\ UNCHANGED <<form, hook, pc, j, i, config, strip, branches, idx, out,
                   shortenCalls>>

\* Lines 172-176: return without a payload, json.loads (ValueError on text
\* that is no JSON), and the entry of simplify_payload (AttributeError on
\* .get of what is no dict).
Start ==
    /\ running
    /\ pc = "start"
    /\ LET p == Get(form, "payload", Body("empty", EmptyDict))
       IN  IF p.kind = "empty"
           THEN pc' = "done" /\ running' = FALSE /\ j' = j /\ i' = i
           ELSE IF p.kind \in {"garbage", "array"}
           THEN pc' = "raised" /\ running' = FALSE /\ j' = j /\ i' = i
           ELSE pc' = "simplify" /\ running' = TRUE
                /\ j' = NewResult(p.doc) /\ i' = 1
    /\ UNCHANGED <<form, hook, pulls, config, strip, branches, idx, out,
                   shortenCalls>>

\* Lines 52-64: one commit of simplify_payload's loop.
SimplifyCommit ==
    /\ running
    /\ pc = "simplify"
    /\ i <= Len(Commits)
    /\ j' = SimplifyStep(j, Commits[i])
    /\ i' = i + 1
    /\ UNCHANGED <<form, hook, pc, running, pulls, config, strip, branches,
                   idx, out, shortenCalls>>

\* Lines 66-69: the pusher, and simplify_payload returns.
SimplifyReturn ==
    /\ running
    /\ pc = "simplify"
    /\ i > Len(Commits)
    /\ j' = [j EXCEPT !.pusher = Get(j.original, "user", None)]
    /\ pc' = "gate"
    /\ UNCHANGED <<form, hook, running, pulls, i, config, strip, branches,
                   idx, out, shortenCalls>>

\* Lines 177-192: the configuration is read and the dispatch is dropped, fails
\* or goes on to render.
EnterGate ==
    /\ running
    /\ pc = "gate"
    /\ config' = ConfigOf(hook)
    /\ strip' = StripFlag(config')
    /\ branches' = Get(config', "branches", None)
    /\ LET g == Gate(j, branches')
       IN  /\ pc' = CASE g = "raise" -> "raised"
                      [] g = "return" -> "done"
                      [] OTHER -> "summary"
           /\ running' = (g = "render")
    /\ UNCHANGED <<form, hook, pulls, j, i, idx, out, shortenCalls>>

\* Line 194: the summary line is built and yielded.
YieldSummary ==
    /\ running
    /\ pc = "summary"
    /\ \E short \in IF SummaryRaises(j) THEN {<<>>}
                    ELSE ShortenResults(SummaryLink(j)) :
         LET r == MakeSummaryLine(j, config, short)
         IN  IF r.raises
             THEN pc' = "raised" /\ out' = out /\ idx' = idx
                  /\ shortenCalls' = shortenCalls
             ELSE pc' = "commits" /\ out' = Append(out, Message(r.text, strip))
                  /\ idx' = 1
                  /\ shortenCalls' = shortenCalls + r.shortened
    /\ running' = FALSE
    /\ UNCHANGED <<form, hook, pulls, j, i, config, strip, branches>>

YieldCommitEager ==
    /\ running
    /\ pc = "commits"
    /\ idx <= Len(Commits)
    /\ LET r == MakeCommitLine(j, ConfigOf(hook), Commits[idx])
       IN  IF r.raises
           THEN pc' = "raised" /\ out' = out /\ idx' = idx
                /\ shortenCalls' = shortenCalls /\ running' = FALSE
           ELSE pc' = pc /\ out' = Append(out, Message(r.text, strip))
                /\ idx' = idx + 1
                /\ shortenCalls' = shortenCalls + r.shortened
                /\ running' = TRUE
    /\ UNCHANGED <<form, hook, pulls, j, i, config, strip, branches>>

\* Lines 195-196: the line of the next commit is built and yielded.
YieldCommit ==
    /\ running
    /\ pc = "commits"
    /\ idx <= Len(Commits)
    /\ LET r == MakeCommitLine(j, ConfigOf(hook), Commits[idx])
       IN  IF r.raises
           THEN pc' = "raised" /\ out' = out /\ idx' = idx
                /\ shortenCalls' = shortenCalls
           ELSE pc' = pc /\ out' = Append(out, Message(r.text, strip))
                /\ idx' = idx + 1
                /\ shortenCalls' = shortenCalls + r.shortened
    /\ running' = FALSE
    /\ UNCHANGED <<form, hook, pulls, j, i, config, strip, branches>>

\* The loop of line 195 is exhausted: the generator returns.
Finish ==
    /\ running
    /\ pc = "commits"
    /\ idx > Len(Commits)
    /\ pc' = "done"
    /\ running' = FALSE
    /\ UNCHANGED <<form, hook, pulls, j, i, config, strip, branches, idx, out,
                   shortenCalls>>

Next ==
    \/ Pull
    \/ Start
    \/ SimplifyCommit
    \/ SimplifyReturn
    \/ EnterGate
    \/ YieldSummary
    \/ YieldCommit
    \/ Finish

Spec == Init /\ [][Next]_vars

---------------------------------------------------------------------------
(* What the properties speak of: the request and the hook as they were given *)

\* The payload field parsed to a JSON object.
IsObject == "payload" \in DOMAIN form /\ form.payload.kind = "object"

Doc == form.payload.doc

HasCommitsKey == IsObject /\ "commits" \in DOMAIN Doc

\* The payload's commits array (empty when there is none).
PayloadCommits == IF HasCommitsKey THEN Doc.commits ELSE <<>>

N == Len(PayloadCommits)

HookConfig == IF hook.none THEN EmptyDict ELSE hook.config

\* The dispatch ended by returning, with no line produced.
YieldedNothing == pc = "done" /\ out = <<>>

\* The payload and its commits carry every key the line builders read.
Renderable ==
    /\ IsObject
    /\ {"repository", "canon_url", "commits"} \subseteq DOMAIN Doc
    /\ {"name", "absolute_url"} \subseteq DOMAIN Doc.repository
    /\ \A n \in 1..N :
         {"author", "raw_author", "node", "message"} \subseteq DOMAIN Doc.commits[n]

---------------------------------------------------------------------------
(* C1 *)

\* C1: for every parsed payload and every hook config, a dispatch that has
\* ended produced no line at all or exactly 1 + N lines, N the number of
\* commits of the payload: it never ends after 1 to N lines.
C1_AllOrNothing ==
    (IsObject /\ Ended) => (Len(out) = 0 \/ Len(out) = 1 + N)

---------------------------------------------------------------------------
(* C2 *)

\* C2: a non-empty payload body that is no JSON text makes the dispatch end
\* normally with an empty sequence; it does not raise.
C2_MalformedFailsClosed ==
    ("payload" \in DOMAIN form /\ form.payload.kind = "garbage" /\ Ended)
        => YieldedNothing

---------------------------------------------------------------------------
(* C3 *)

\* text[a..z] is one of the pieces the commas cut the text into.
IsPiece(text, a, z) ==
    /\ a = 1 \/ text[a - 1] = ","
    /\ z = Len(text) \/ text[z + 1] = ","
    /\ \A n \in a..z : text[n] # ","

\* text[l..r] is text[a..z] without its leading and trailing blanks.
IsTrimOf(text, a, z, l, r) ==
    /\ \A n \in a..(l - 1) : text[n] = " "
    /\ \A n \in (r + 1)..z : text[n] = " "
    /\ l <= r => (text[l] # " " /\ text[r] # " ")

\* b is the lower-cased form of text[l..r].
IsLowerOf(b, text, l, r) ==
    /\ Len(b) = r - l + 1
    /\ \A n \in 1..Len(b) : b[n] = LowerChar(text[l + n - 1])

\* b is a member of the set got by splitting the text on commas, trimming
\* whitespace and lower-casing each item.
Listed(text, b) ==
    \E a \in 1..(Len(text) + 1) : \E z \in (a - 1)..Len(text) :
        /\ IsPiece(text, a, z)
        /\ \E l \in a..(z + 1) : \E r \in (l - 1)..z :
             IsTrimOf(text, a, z, l, r) /\ IsLowerOf(b, text, l, r)

\* The hook lists branches, the event has a branch, and it is not a listed one.
NotWanted ==
    LET text == Get(HookConfig, "branches", None)
    IN  /\ text # None
        /\ text # <<>>
        /\ j.branch # None
        /\ ~Listed(text, [n \in 1..Len(j.branch) |-> LowerChar(j.branch[n])])

\* C3: for a payload with at least one commit, the dispatch yields zero lines
\* exactly when config.branches is non-empty, the normalized branch is set and
\* its lower-cased form is not among the comma-split, trimmed, lower-cased
\* items; in every other case the event goes on to be rendered (all of its
\* 1 + N lines when the payload carries what the lines read).
C3_BranchGate ==
    (IsObject /\ N >= 1 /\ Ended) =>
        /\ YieldedNothing <=> NotWanted
        /\ (~NotWanted /\ Renderable) => (pc = "done" /\ Len(out) = 1 + N)

\* Branches "M, d" and a push to branch "M": rendered.
C3_Witness ==
    /\ Ended
    /\ ~hook.none
    /\ "branches" \in DOMAIN hook.config
    /\ hook.config.branches = <<"M", ",", " ", "d">>
    /\ j.branch = <<"M">>
    /\ N = 2
    /\ Len(out) = 3

---------------------------------------------------------------------------
(* C4 *)

\* C4: a payload whose commits array is present and empty yields an empty
\* sequence without raising, whatever its other fields and the hook config.
C4_NoCommitsNoOp ==
    (HasCommitsKey /\ Doc.commits = <<>> /\ Ended) => YieldedNothing

\* commits: [] in a payload with no user, repository or canon_url.
C4_Witness ==
    /\ HasCommitsKey
    /\ Doc.commits = <<>>
    /\ DOMAIN Doc = {"commits"}
    /\ ~hook.none
    /\ Ended

---------------------------------------------------------------------------
(* C5 *)

\* C5: a payload with no commits array is normalized to empty file sets and an
\* unset branch, and the dispatch then yields an empty sequence without raising.
C5_NoCommitsKeyNoOp ==
    (IsObject /\ ~HasCommitsKey /\ Ended) =>
        /\ j.branch = None
        /\ \A t \in DOMAIN j.files : j.files[t] = {}
        /\ YieldedNothing

---------------------------------------------------------------------------
(* C6 *)

\* use_colors as the hook gives it: true when unset or without a config.
UseColors ==
    IF hook.none THEN TRUE
    ELSE IF "use_colors" \in DOMAIN hook.config THEN hook.config.use_colors
    ELSE TRUE

\* C6: every line of a dispatch, summary and commit lines alike, carries the
\* strip flag (not use_colors), false when use_colors is unset or the hook has
\* no config; with use_colors false no line holds a colour control sequence
\* once it is final, with use_colors true the summary line holds one.
C6_StripFlag ==
    /\ \A n \in 1..Len(out) :
         /\ out[n].strip = ~UseColors
         /\ ~UseColors => ~HasColor(Final(out[n]))
    /\ (UseColors /\ Len(out) >= 1) => HasColor(Final(out[1]))

\* A summary line and a commit line, of a hook with use_colors false.
C6_Witness ==
    /\ ~UseColors
    /\ Len(out) >= 2
    /\ HasColor(out[1].text)
    /\ HasColor(out[2].text)

---------------------------------------------------------------------------
(* C7, C8: the normalizer *)

\* The commits simplify_payload has processed so far.
Processed ==
    IF pc = "start" THEN <<>>
    ELSE IF pc = "simplify" THEN SubSeq(PayloadCommits, 1, i - 1)
    ELSE PayloadCommits

\* simplify_payload has returned.
Normalized == IsObject /\ pc \notin {"start", "simplify"}

DeclaresBranch(c) == "branch" \in DOMAIN c /\ c.branch # <<>>

\* The branch of the last commit of cs that declares a non-empty one, if any.
LastDeclared(cs) ==
    LET D == {n \in 1..Len(cs) : DeclaresBranch(cs[n])}
    IN  IF D = {} THEN None
        ELSE cs[CHOOSE n \in D : \A m \in D : m <= n].branch

\* C7: the normalized branch is the branch of the last commit, in payload
\* order, that declares a non-empty branch (a commit with a missing or empty
\* branch neither overwrites nor clears it), and is unset when none does.
C7_BranchLastWins ==
    IsObject => j.branch = LastDeclared(Processed)

\* Commit branches "d", "", "m" give "m"; and the empty one left "d" in place.
C7_Witness ==
    /\ Normalized
    /\ N = 3
    /\ DeclaresBranch(PayloadCommits[1]) /\ PayloadCommits[1].branch = <<"d">>
    /\ "branch" \in DOMAIN PayloadCommits[2] /\ PayloadCommits[2].branch = <<>>
    /\ DeclaresBranch(PayloadCommits[3]) /\ PayloadCommits[3].branch = <<"m">>
    /\ j.branch = <<"m">>

\* The names the commits cs give the type t.
FilesOfType(cs, t) ==
    LET entries == UNION {Range(Get(cs[n], "files", <<>>)) : n \in 1..Len(cs)}
    IN  {f.file : f \in {g \in entries : g.type = t}}

\* C8: after any prefix of the commits, and at simplify_payload's return,
\* files.all is the union of files.added, files.removed and files.modified,
\* and each of the three holds every name any processed commit gave that type.
C8_FileSets ==
    IsObject =>
        /\ j.files.all = j.files.added \cup j.files.removed \cup j.files.modified
        /\ \A t \in {"added", "removed", "modified"} :
             j.files[t] = FilesOfType(Processed, t)

\* [{added, a.py}] then [{modified, a.py}, {removed, b.py}].
C8_Witness ==
    /\ Normalized
    /\ N = 2
    /\ Get(PayloadCommits[1], "files", <<>>)
         = <<[type |-> "added", file |-> "a.py"]>>
    /\ Get(PayloadCommits[2], "files", <<>>)
         = <<[type |-> "modified", file |-> "a.py"],
             [type |-> "removed", file |-> "b.py"]>>
    /\ j.files = [all |-> {"a.py", "b.py"}, added |-> {"a.py"},
                  removed |-> {"b.py"}, modified |-> {"a.py"}]

---------------------------------------------------------------------------
(* C9, C10: the sequence and the shortener *)

\* C9: the lines come lazily and in order: no more lines have been computed
\* than the consumer has pulled, none is computed while the generator is
\* suspended, the first is the summary line and line k + 1 is the line of the
\* k-th commit of the payload; a sequence that ends non-empty has 1 + N lines.
C9_LazyInOrder ==
    /\ Len(out) <= pulls
    /\ Len(out) <= 1 + N
    /\ ~running => ~ENABLED (YieldSummary \/ YieldCommit)
    /\ Len(out) >= 1 =>
         \E short \in ShortenResults(SummaryLink(j)) :
            out[1].text = SummaryText(j, HookConfig, short)
    /\ \A k \in 1..(Len(out) - 1) :
         out[k + 1].text = CommitText(j, HookConfig, PayloadCommits[k])
    /\ (pc = "done" /\ out # <<>>) => Len(out) = 1 + N

\* Three pulls gave the summary and the lines of two different commits, and
\* the third commit's line waits for the next pull.
C9_Witness ==
    /\ N = 3
    /\ pulls = 3
    /\ Len(out) = 3
    /\ ~running
    /\ pc = "commits"
    /\ out[2].text # out[3].text

\* C10: the shortener is called at most once in a dispatch: not at all while
\* no line has been produced (so never in a dispatch that yields nothing),
\* once with the summary line, and not again for any commit line.
C10_ShortenOnce ==
    /\ shortenCalls = (IF Len(out) >= 1 THEN 1 ELSE 0)
    /\ (Ended /\ out = <<>>) => shortenCalls = 0

\* A whole dispatch of 1 + 2 lines made one call.
C10_Witness ==
    /\ pc = "done"
    /\ N = 2
    /\ Len(out) = 3
    /\ shortenCalls = 1

=============================================================================
